---- MODULE Spec2Model ----
(***************************************************************************)
(* State-machine model of the chatterbox-czech-api browser client:         *)
(*   - client/src/App.vue       the synthesis page                          *)
(*   - client/src/Settings.vue  the voice-sample page (capture, upload,     *)
(*                              list, delete)                               *)
(* Every ref() of a component is a variable, every handler an action, and   *)
(* every await splits a handler into the step before and the step after.    *)
(* Promises in flight (HTTP calls, getUserMedia, FileReader, timers) are     *)
(* variables; their resolution is an action of the environment.              *)
(***************************************************************************)
EXTENDS Integers, Sequences, FiniteSets, TLC

(***************************************************************************)
(* Bounds of the model.                                                     *)
(***************************************************************************)
MaxTextLen == 2      \* longest text the user types
MaxInFlight == 2     \* HTTP calls of one kind the model lets be pending at once
MaxTimers == 2       \* pending setTimeout callbacks
MaxReads == 1        \* pending FileReader reads
MaxSuccessTimers == 1 \* pending setTimeout callbacks of the success message

(***************************************************************************)
(* Values.                                                                  *)
(***************************************************************************)
SP == " "
Chars == {SP, "a"}

RECURSIVE SeqsUpTo(_, _)
SeqsUpTo(S, n) ==
  IF n = 0 THEN {<<>>}
  ELSE LET shorter == SeqsUpTo(S, n - 1)
       IN  shorter \cup {Append(s, x) : s \in {t \in shorter : Len(t) = n - 1}, x \in S}

Texts == SeqsUpTo(Chars, MaxTextLen)

\* String.prototype.trim: strip leading and trailing white space
RECURSIVE TrimLeft(_)
TrimLeft(s) == IF s # <<>> /\ Head(s) = SP THEN TrimLeft(Tail(s)) ELSE s

RECURSIVE TrimRight(_)
TrimRight(s) ==
  IF s # <<>> /\ s[Len(s)] = SP THEN TrimRight(SubSeq(s, 1, Len(s) - 1)) ELSE s

Trim(s) == TrimRight(TrimLeft(s))

\* the initial value of text (App.vue:65), a non-blank sentence
DefaultText == <<"a">>

\* a caught error: err.response.data.detail and err.message ("" = absent)
Failures ==
  { [detail |-> "backend detail", message |-> "network message"],
    [detail |-> "", message |-> "network message"],
    [detail |-> "", message |-> ""] }
NoFailure == [detail |-> "", message |-> ""]

\* ErrorText with the two sources swapped: the message before the detail
ErrorTextMessageFirst(f, generic) ==
  IF f.message # "" THEN f.message
  ELSE IF f.detail # "" THEN f.detail
  ELSE generic

\* err?.response?.data?.detail || err.message || generic
ErrorText(f, generic) ==
  IF f.detail # "" THEN f.detail
  ELSE IF f.message # "" THEN f.message
  ELSE generic

Event(op, kind, f) == [op |-> op, kind |-> kind, fail |-> f]

(***************************************************************************)
(* The backend's voice samples, as GET /v1/voice-samples lists them.        *)
(***************************************************************************)
MaxSamples == 2      \* voice samples the backend ever stores
SampleIds == 1..MaxSamples
Names == {<<"a">>}

\* the files the user can pick in the text-file input: size in bytes and the
\* bytes the text starts with
MinFileSize == 200 * 1024
TextFiles ==
  { [name |-> "small.txt", size |-> 50 * 1024, bytes |-> <<97, 97>>],
    [name |-> "edge.txt", size |-> 200 * 1024, bytes |-> <<32>>],
    [name |-> "big.txt", size |-> 500 * 1024, bytes |-> <<97, 255>>] }

\* readAsText: UTF-8 decoding, of the bytes the files hold; a byte that is
\* not valid UTF-8 becomes the replacement character
Replacement == "?"
DecodeText(bytes) ==
  [i \in 1..Len(bytes) |->
     IF bytes[i] = 32 THEN SP
     ELSE IF bytes[i] = 97 THEN "a"
     ELSE Replacement]

WavPayloads == {"", "UklGR"}     \* res.data.wav_base64 ("" = field absent)

(***************************************************************************)
(* Binary data of the voice-sample page.                                    *)
(***************************************************************************)
MaxSessions == 2     \* getUserMedia grants, i.e. recorders ever created
MaxFrags == 2        \* dataavailable events one recorder fires when stopped
MaxDuration == 1     \* ticks of the duration counter the model follows
Sessions == 1..MaxSessions

\* what a dataavailable event can carry: event.data, a run of bytes
Fragments == {<<>>, <<1>>, <<254, 3>>}

\* the files the user can pick in the audio-file input
AudioFiles ==
  { [name |-> "voice.wav", bytes |-> <<82, 73, 70, 70>>],
    [name |-> "empty.wav", bytes |-> <<>>] }

\* new Blob(chunks): the bytes of the chunks, one after the other
RECURSIVE Concat(_)
Concat(chunks) ==
  IF chunks = <<>> THEN <<>> ELSE Head(chunks) \o Concat(Tail(chunks))

\* btoa of the binary string of a byte array: base64, as sextets 0..63 and
\* the padding sign (64)
Pad == 64

\* Btoa with the third sextet missing the two high bits of the third byte
RECURSIVE BtoaDropsBits(_)
BtoaDropsBits(b) ==
  IF b = <<>> THEN <<>>
  ELSE LET n  == Len(b)
           b1 == b[1]
           b2 == IF n >= 2 THEN b[2] ELSE 0
           b3 == IF n >= 3 THEN b[3] ELSE 0
           c1 == b1 \div 4
           c2 == (b1 % 4) * 16 + (b2 \div 16)
           c3 == (b2 % 16) * 4
           c4 == b3 % 64
       IN  IF n = 1 THEN <<c1, c2, Pad, Pad>>
           ELSE IF n = 2 THEN <<c1, c2, c3, Pad>>
           ELSE <<c1, c2, c3, c4>> \o BtoaDropsBits(SubSeq(b, 4, n))

RECURSIVE Btoa(_)
Btoa(b) ==
  IF b = <<>> THEN <<>>
  ELSE LET n  == Len(b)
           b1 == b[1]
           b2 == IF n >= 2 THEN b[2] ELSE 0
           b3 == IF n >= 3 THEN b[3] ELSE 0
           c1 == b1 \div 4
           c2 == (b1 % 4) * 16 + (b2 \div 16)
           c3 == (b2 % 16) * 4 + (b3 \div 64)
           c4 == b3 % 64
       IN  IF n = 1 THEN <<c1, c2, Pad, Pad>>
           ELSE IF n = 2 THEN <<c1, c2, c3, Pad>>
           ELSE <<c1, c2, c3, c4>> \o Btoa(SubSeq(b, 4, n))

\* `Recorded ${timestamp}`, the name onstop fills in
RecordedName == <<"R">>

(***************************************************************************)
(* The payload encoder's inputs and the decoder of the backend.            *)
(***************************************************************************)
MaxBytes == 4        \* bytes of one encoder input

\* byte values: both ends of the range and the two around the sign bit
Bytes == {0, 127, 128, 255}

EncoderInputs == SeqsUpTo(Bytes, MaxBytes)

\* base64 decoding of a padded text of sextets: four signs give up to three
\* bytes
RECURSIVE Atob(_)
Atob(t) ==
  IF t = <<>> THEN <<>>
  ELSE LET c3 == IF t[3] = Pad THEN 0 ELSE t[3]
           c4 == IF t[4] = Pad THEN 0 ELSE t[4]
           b1 == t[1] * 4 + (t[2] \div 16)
           b2 == (t[2] % 16) * 16 + (c3 \div 4)
           b3 == (c3 % 4) * 64 + c4
       IN  IF t[3] = Pad THEN <<b1>>
           ELSE IF t[4] = Pad THEN <<b1, b2>>
           ELSE <<b1, b2, b3>> \o Atob(SubSeq(t, 5, Len(t)))

(***************************************************************************)
(* Requests of the gateway (server.js). A path is a sequence of characters. *)
(***************************************************************************)
PathHealth == <<"/", "h", "e", "a", "l", "t", "h">>
PathV1 == <<"/", "v", "1">>
PathChat == PathV1 \o <<"/", "c", "h", "a", "t">>
PathRoot == <<"/">>
PathFooBar == <<"/", "f", "o", "o", "/", "b", "a", "r">>
PathAsset == <<"/", "a", ".", "j", "s">>
PathIndex == <<"/", "i", "n", "d", "e", "x", ".", "h", "t", "m", "l">>

\* the paths requested: the API paths, near misses of them, pages and assets
RequestPaths ==
  { PathHealth, PathHealth \o <<"z">>, PathHealth \o <<"/">>,
    PathV1, PathChat, PathV1 \o <<"x">>, <<"/", "v">>, <<"/", "V", "1">>,
    <<"/", "a">> \o PathV1,
    PathRoot, PathFooBar, PathAsset, PathIndex }

Requests ==
  [method : {"GET", "POST"}, path : RequestPaths, query : {"", "?a=1"},
   body : {"", "{}"}, host : {"localhost:4173"}]

NoRequest == [method |-> "", path |-> <<>>, query |-> "", body |-> "", host |-> ""]
NoResponse == [status |-> 0, doc |-> <<>>]

\* the files of distDir after a build
DistFiles == {PathIndex, PathAsset}

\* the host of API_TARGET (server.js:11)
ApiHost == "api:8000"

\* the status codes the backend answers with
BackendStatuses == {200, 404, 500}

\* String.prototype.startsWith
StartsWith(s, p) == Len(s) >= Len(p) /\ SubSeq(s, 1, Len(p)) = p

VARIABLES
  \* ---- App.vue ----
  text, selectedVoiceSample, voiceSamples, audioSrc, loading, error,
  uploadedFileName, uploadedFileSize,
  appMounted,      \* onMounted has run
  appListCalls,    \* GET /v1/voice-samples calls of the synthesis page in flight
  chatCalls,       \* POST /v1/chat payloads in flight, oldest first
  warnTimers,      \* pending setTimeout callbacks of the small-file warning
  textReads,       \* FileReader.readAsText reads in flight
  \* ---- Settings.vue ----
  selectedFileName, audioData, sampleName, uploading, uploadError,
  uploadSuccess, isRecording, recordingDuration, recordedAudioUrl,
  mediaRecorder, audioChunks, recordingInterval,
  samples, listLoading, samplesError, deleting,
  settingsMounted, \* "no", "mounted" or "unmounted"
  gumCalls,        \* getUserMedia requests awaiting the user's answer
  recState,        \* per recorder: "unused", "recording", "flushing", "stopped"
  emitted,         \* per recorder: the fragments it has fired, in order
  trackLive,       \* per stream: its track has not been stopped
  onstop,          \* per recorder: progress of its onstop handler
  intervals,       \* the setInterval timers that are running
  audioReads,      \* FileReader.readAsArrayBuffer reads in flight
  uploadCalls,     \* POST /v1/voice-samples calls in flight
  listCalls,       \* GET /v1/voice-samples calls of the settings page in flight
  deleteCalls,     \* DELETE /v1/voice-samples/{id} calls in flight
  successTimers,   \* pending setTimeout callbacks of the success message
  nextId,          \* the id the backend gives the next sample
  \* ---- server.js ----
  gwRequest,       \* the request the gateway is handling
  gwStage,         \* the middleware it has reached, "idle" or "done"
  gwHandled,       \* the handlers that took the request, in order
  gwForwarded,     \* the request the proxy sent to the backend
  gwUpstream,      \* the status code the backend answered (0 = none)
  gwResponse,      \* the response sent to the client
  \* ---- the payload encoder ----
  encIn,           \* the bytes given to the encoder
  encText,         \* their encoding
  encBack,         \* the bytes decoded from encText
  encAgain,        \* the encoding of encBack
  encPc,           \* "idle", "input", "encoded", "decoded" or "reencoded"
  \* ---- the backend and the observer ----
  backend,         \* the samples the backend stores, in list order
  ev               \* the last event that happened (history variable)

appVars == <<text, selectedVoiceSample, voiceSamples, audioSrc, loading, error,
             uploadedFileName, uploadedFileSize, appMounted, appListCalls,
             chatCalls, warnTimers, textReads>>

captureVars == <<isRecording, recordingDuration, recordedAudioUrl,
                 mediaRecorder, audioChunks, recordingInterval, gumCalls,
                 recState, emitted, trackLive, onstop, intervals>>

formVars == <<selectedFileName, audioData, sampleName, uploading, uploadError,
              uploadSuccess, audioReads>>

listVars == <<samples, listLoading, samplesError, deleting>>

netVars == <<uploadCalls, listCalls, deleteCalls, successTimers, nextId>>

settingsVars == <<captureVars, formVars, listVars, netVars, settingsMounted>>

gatewayVars == <<gwRequest, gwStage, gwHandled, gwForwarded, gwUpstream,
                 gwResponse>>

encoderVars == <<encIn, encText, encBack, encAgain, encPc>>

\* the state outside the two pages
offPageVars == <<gatewayVars, encoderVars>>

vars == <<appVars, settingsVars, offPageVars, backend, ev>>

InitApp ==
  /\ text = DefaultText
  /\ selectedVoiceSample = 0
  /\ voiceSamples = <<>>
  /\ audioSrc = <<>>
  /\ loading = FALSE
  /\ error = ""
  /\ uploadedFileName = ""
  /\ uploadedFileSize = 0
  /\ appMounted = FALSE
  /\ appListCalls = 0
  /\ chatCalls = <<>>
  /\ warnTimers = 0
  /\ textReads = <<>>

InitSettings ==
  /\ selectedFileName = ""
  /\ audioData = <<>>
  /\ sampleName = <<>>
  /\ uploading = FALSE
  /\ uploadError = ""
  /\ uploadSuccess = ""
  /\ isRecording = FALSE
  /\ recordingDuration = 0
  /\ recordedAudioUrl = 0
  /\ mediaRecorder = 0
  /\ audioChunks = <<>>
  /\ recordingInterval = 0
  /\ samples = <<>>
  /\ listLoading = FALSE
  /\ samplesError = ""
  /\ deleting = 0
  /\ settingsMounted = "no"
  /\ gumCalls = 0
  /\ recState = [s \in Sessions |-> "unused"]
  /\ emitted = [s \in Sessions |-> <<>>]
  /\ trackLive = [s \in Sessions |-> FALSE]
  /\ onstop = [s \in Sessions |-> [pc |-> "idle", blob |-> <<>>]]
  /\ intervals = {}
  /\ audioReads = <<>>
  /\ uploadCalls = <<>>
  /\ listCalls = <<>>
  /\ deleteCalls = <<>>
  /\ successTimers = 0

InitGateway ==
  /\ gwRequest = NoRequest
  /\ gwStage = "idle"
  /\ gwHandled = <<>>
  /\ gwForwarded = NoRequest
  /\ gwUpstream = 0
  /\ gwResponse = NoResponse

InitEncoder ==
  /\ encIn = <<>>
  /\ encText = <<>>
  /\ encBack = <<>>
  /\ encAgain = <<>>
  /\ encPc = "idle"

Init ==
  /\ InitApp
  /\ InitSettings
  /\ InitGateway
  /\ InitEncoder
  /\ backend = <<[id |-> 1, name |-> <<"a", "a">>]>>
  /\ nextId = Len(backend) + 1
  /\ ev = Event("init", "none", NoFailure)

RemoveAt(s, i) == SubSeq(s, 1, i - 1) \o SubSeq(s, i + 1, Len(s))

(***************************************************************************)
(* App.vue                                                                  *)
(***************************************************************************)
\* onMounted(() => { loadVoiceSamples(); }) up to the await of axios.get
AppOnMounted ==
  /\ ~appMounted
  /\ settingsMounted = "no"
  /\ appMounted' = TRUE
  /\ appListCalls' = appListCalls + 1
  /\ ev' = Event("App.onMounted", "call", NoFailure)
  /\ UNCHANGED <<text, selectedVoiceSample, voiceSamples, audioSrc, loading,
                 error, uploadedFileName, uploadedFileSize, chatCalls,
                 warnTimers, textReads, backend, settingsVars, offPageVars>>

\* loadVoiceSamples after the await: voiceSamples.value = res.data.samples
LoadVoiceSamplesOk ==
  /\ appListCalls > 0
  /\ appListCalls' = appListCalls - 1
  /\ voiceSamples' = backend
  /\ ev' = Event("App.loadVoiceSamples", "ok", NoFailure)
  /\ UNCHANGED <<text, selectedVoiceSample, audioSrc, loading, error,
                 uploadedFileName, uploadedFileSize, appMounted, chatCalls,
                 warnTimers, textReads, backend, settingsVars, offPageVars>>

\* loadVoiceSamples, catch: console.error only
LoadVoiceSamplesFail(f) ==
  /\ appListCalls > 0
  /\ appListCalls' = appListCalls - 1
  /\ ev' = Event("App.loadVoiceSamples", "fail", f)
  /\ UNCHANGED <<text, selectedVoiceSample, voiceSamples, audioSrc, loading,
                 error, uploadedFileName, uploadedFileSize, appMounted,
                 chatCalls, warnTimers, textReads, backend, settingsVars, offPageVars>>

\* <textarea v-model="text">
EditText(t) ==
  /\ appMounted
  /\ t # text
  /\ text' = t
  /\ ev' = Event("App.editText", "call", NoFailure)
  /\ UNCHANGED <<selectedVoiceSample, voiceSamples, audioSrc, loading, error,
                 uploadedFileName, uploadedFileSize, appMounted, appListCalls,
                 chatCalls, warnTimers, textReads, backend, settingsVars, offPageVars>>

\* <select v-model="selectedVoiceSample">: "" (0) or the id of a listed sample
SelectVoice(v) ==
  /\ appMounted
  /\ v # selectedVoiceSample
  /\ v = 0 \/ \E i \in 1..Len(voiceSamples) : voiceSamples[i].id = v
  /\ selectedVoiceSample' = v
  /\ ev' = Event("App.selectVoice", "call", NoFailure)
  /\ UNCHANGED <<text, voiceSamples, audioSrc, loading, error,
                 uploadedFileName, uploadedFileSize, appMounted, appListCalls,
                 chatCalls, warnTimers, textReads, backend, settingsVars, offPageVars>>

\* BelowMinimum with the threshold itself counted as too small
BelowMinimumInclusive(file) == file.size <= MinFileSize

\* file.size < 200 * 1024
BelowMinimum(file) == file.size < MinFileSize

\* handleTextFileUpload(event) with a file chosen, up to reader.readAsText
HandleTextFileUpload(file) ==
  /\ appMounted
  /\ Len(textReads) < MaxReads
  /\ warnTimers < MaxTimers
  /\ uploadedFileName' = file.name
  /\ uploadedFileSize' = file.size
  /\ IF BelowMinimum(file)
       THEN /\ error' = "Warning: File is only"
            /\ warnTimers' = warnTimers + 1
       ELSE UNCHANGED <<error, warnTimers>>
  /\ textReads' = Append(textReads, file.bytes)
  /\ ev' = Event("App.handleTextFileUpload", "call", NoFailure)
  /\ UNCHANGED <<text, selectedVoiceSample, voiceSamples, audioSrc, loading,
                 appMounted, appListCalls, chatCalls, backend, settingsVars, offPageVars>>

\* reader.onload = (e) => { text.value = e.target.result; }
TextReaderOnload(i) ==
  /\ i \in 1..Len(textReads)
  /\ text' = DecodeText(textReads[i])
  /\ textReads' = RemoveAt(textReads, i)
  /\ ev' = Event("App.reader.onload", "ok", NoFailure)
  /\ UNCHANGED <<selectedVoiceSample, voiceSamples, audioSrc, loading, error,
                 uploadedFileName, uploadedFileSize, appMounted, appListCalls,
                 chatCalls, warnTimers, backend, settingsVars, offPageVars>>

\* setTimeout(() => { error.value = ''; }, 5000)
WarningTimeout ==
  /\ warnTimers > 0
  /\ warnTimers' = warnTimers - 1
  /\ error' = ""
  /\ ev' = Event("App.warningTimeout", "call", NoFailure)
  /\ UNCHANGED <<text, selectedVoiceSample, voiceSamples, audioSrc, loading,
                 uploadedFileName, uploadedFileSize, appMounted, appListCalls,
                 chatCalls, textReads, backend, settingsVars, offPageVars>>

\* SynthesizeDisabled without the test of loading
SynthesizeDisabledIgnoresLoading == Trim(text) = <<>>

\* SynthesizeDisabled without the test of the text
SynthesizeDisabledIgnoresBlank == loading

\* <button :disabled="loading || !text.trim()" @click="synthesize">
SynthesizeDisabled == loading \/ Trim(text) = <<>>

\* the payload synthesize builds from the current fields
Payload ==
  [text |-> text, language |-> "cs", speed |-> 11,
   voice_sample_id |-> selectedVoiceSample]

\* Synthesize without the clearing of error
SynthesizeKeepsError ==
  /\ Len(chatCalls) < MaxInFlight
  /\ loading' = TRUE
  /\ audioSrc' = <<>>
  /\ chatCalls' = Append(chatCalls, Payload)
  /\ ev' = Event("App.synthesize", "call", NoFailure)
  /\ UNCHANGED <<error, text, selectedVoiceSample, voiceSamples,
                 uploadedFileName, uploadedFileSize, appMounted, appListCalls,
                 warnTimers, textReads, backend, settingsVars, offPageVars>>

\* synthesize() up to the await of axios.post
Synthesize ==
  /\ Len(chatCalls) < MaxInFlight
  /\ loading' = TRUE
  /\ error' = ""
  /\ audioSrc' = <<>>
  /\ chatCalls' = Append(chatCalls, Payload)
  /\ ev' = Event("App.synthesize", "call", NoFailure)
  /\ UNCHANGED <<text, selectedVoiceSample, voiceSamples, uploadedFileName,
                 uploadedFileSize, appMounted, appListCalls, warnTimers,
                 textReads, backend, settingsVars, offPageVars>>

\* a click on the Synthesize button while it is enabled runs the handler
ClickSynthesize ==
  /\ appMounted
  /\ ~SynthesizeDisabled
  /\ Synthesize

\* a click on the Synthesize button while it is disabled runs nothing
ClickSynthesizeDisabled ==
  /\ appMounted
  /\ SynthesizeDisabled
  /\ ev' = Event("App.synthesize", "blocked", NoFailure)
  /\ UNCHANGED <<appVars, offPageVars, backend, settingsVars, offPageVars>>

\* SynthesizeResolved without the test of wav_base64
SynthesizeResolvedUnchecked(i, wav) ==
  /\ i \in 1..Len(chatCalls)
  /\ chatCalls' = RemoveAt(chatCalls, i)
  /\ audioSrc' = <<"data:audio/wav;base64,", wav>>
  /\ ev' = Event("App.synthesize", IF wav = "" THEN "noaudio" ELSE "ok",
                 NoFailure)
  /\ loading' = FALSE
  /\ UNCHANGED <<error, text, selectedVoiceSample, voiceSamples,
                 uploadedFileName, uploadedFileSize, appMounted, appListCalls,
                 warnTimers, textReads, backend, settingsVars, offPageVars>>

\* synthesize() after the await, the POST answered with a 2xx
SynthesizeResolved(i, wav) ==
  /\ i \in 1..Len(chatCalls)
  /\ chatCalls' = RemoveAt(chatCalls, i)
  /\ IF wav = ""
       THEN \* throw new Error('No audio returned'), caught below
            /\ error' = ErrorText([detail |-> "", message |-> "No audio returned"],
                                  "Request failed")
            /\ ev' = Event("App.synthesize", "noaudio", NoFailure)
            /\ UNCHANGED audioSrc
       ELSE /\ audioSrc' = <<"data:audio/wav;base64,", wav>>
            /\ ev' = Event("App.synthesize", "ok", NoFailure)
            /\ UNCHANGED error
  /\ loading' = FALSE
  /\ UNCHANGED <<text, selectedVoiceSample, voiceSamples, uploadedFileName,
                 uploadedFileSize, appMounted, appListCalls, warnTimers,
                 textReads, backend, settingsVars, offPageVars>>

\* synthesize() after the await, the POST failed: catch and finally
SynthesizeRejected(i, f) ==
  /\ i \in 1..Len(chatCalls)
  /\ chatCalls' = RemoveAt(chatCalls, i)
  /\ error' = ErrorText(f, "Request failed")
  /\ loading' = FALSE
  /\ ev' = Event("App.synthesize", "fail", f)
  /\ UNCHANGED <<text, selectedVoiceSample, voiceSamples, audioSrc,
                 uploadedFileName, uploadedFileSize, appMounted, appListCalls,
                 warnTimers, textReads, backend, settingsVars, offPageVars>>

NextApp ==
  \/ AppOnMounted
  \/ LoadVoiceSamplesOk
  \/ \E f \in Failures : LoadVoiceSamplesFail(f)
  \/ \E t \in Texts : EditText(t)
  \/ \E v \in {0} \cup SampleIds : SelectVoice(v)
  \/ \E file \in TextFiles : HandleTextFileUpload(file)
  \/ \E i \in 1..MaxReads : TextReaderOnload(i)
  \/ WarningTimeout
  \/ ClickSynthesize
  \/ ClickSynthesizeDisabled
  \/ \E i \in 1..MaxInFlight, wav \in WavPayloads : SynthesizeResolved(i, wav)
  \/ \E i \in 1..MaxInFlight, f \in Failures : SynthesizeRejected(i, f)

SpecApp == Init /\ [][NextApp]_vars

(***************************************************************************)
(* Settings.vue: microphone capture                                         *)
(***************************************************************************)
\* the recorders created so far; a new one takes the next number
Created == {s \in Sessions : recState[s] # "unused"}

\* startRecording() up to the await of getUserMedia
StartRecording ==
  /\ gumCalls + Cardinality(Created) < MaxSessions
  /\ gumCalls' = gumCalls + 1
  /\ ev' = Event("Settings.startRecording", "call", NoFailure)
  /\ UNCHANGED <<isRecording, recordingDuration, recordedAudioUrl,
                 mediaRecorder, audioChunks, recordingInterval, recState,
                 emitted, trackLive, onstop, intervals, formVars, listVars, netVars,
                 settingsMounted, appVars, offPageVars, backend>>

\* stopRecording()
StopRecording ==
  /\ IF mediaRecorder # 0 /\ isRecording
       THEN /\ recState' = [recState EXCEPT ![mediaRecorder] = "flushing"]
            /\ isRecording' = FALSE
            /\ intervals' = IF recordingInterval # 0
                              THEN intervals \ {recordingInterval}
                              ELSE intervals
       ELSE UNCHANGED <<recState, isRecording, intervals>>
  /\ ev' = Event("Settings.stopRecording", "call", NoFailure)
  /\ UNCHANGED <<recordingDuration, recordedAudioUrl, mediaRecorder,
                 audioChunks, recordingInterval, gumCalls, emitted, trackLive,
                 onstop, formVars, listVars, netVars, settingsMounted, appVars, offPageVars, backend>>

\* <button @click="toggleRecording" :disabled="uploading">
ToggleDisabled == uploading

\* toggleRecording()
ToggleRecording ==
  /\ settingsMounted = "mounted"
  /\ ~ToggleDisabled
  /\ IF isRecording THEN StopRecording ELSE StartRecording

\* startRecording() after the await, access granted: the recorder is created,
\* its handlers installed, it is started and the duration timer set
StartRecordingGranted ==
  /\ gumCalls > 0
  /\ \E s \in Sessions :
       /\ recState[s] = "unused"
       /\ \A r \in Sessions : r < s => recState[r] # "unused"
       /\ gumCalls' = gumCalls - 1
       /\ trackLive' = [trackLive EXCEPT ![s] = TRUE]
       /\ mediaRecorder' = s
       /\ audioChunks' = <<>>
       /\ recState' = [recState EXCEPT ![s] = "recording"]
       /\ isRecording' = TRUE
       /\ recordingDuration' = 0
       /\ recordingInterval' = s
       /\ intervals' = intervals \cup {s}
  /\ ev' = Event("Settings.startRecording", "ok", NoFailure)
  /\ UNCHANGED <<recordedAudioUrl, emitted, onstop, formVars, listVars, netVars,
                 settingsMounted, appVars, offPageVars, backend>>

\* StartRecordingDenied with an empty catch block
StartRecordingDeniedSilent(f) ==
  /\ gumCalls > 0
  /\ gumCalls' = gumCalls - 1
  /\ ev' = Event("Settings.startRecording", "fail", f)
  /\ UNCHANGED <<isRecording, recordingDuration, recordedAudioUrl,
                 mediaRecorder, audioChunks, recordingInterval, recState,
                 emitted, trackLive, onstop, intervals, formVars, audioReads,
                 listVars, netVars, settingsMounted, appVars, offPageVars,
                 backend>>

\* startRecording(), catch: access denied
StartRecordingDenied(f) ==
  /\ gumCalls > 0
  /\ gumCalls' = gumCalls - 1
  /\ uploadError' = "Failed to access microphone: "
  /\ ev' = Event("Settings.startRecording", "fail", f)
  /\ UNCHANGED <<isRecording, recordingDuration, recordedAudioUrl,
                 mediaRecorder, audioChunks, recordingInterval, recState,
                 emitted, trackLive, onstop, intervals, selectedFileName,
                 audioData, sampleName, uploading, uploadSuccess, audioReads,
                 listVars, netVars, settingsMounted, appVars, offPageVars, backend>>

\* setInterval(() => { recordingDuration.value++; }, 1000)
IntervalTick(id) ==
  /\ id \in intervals
  /\ recordingDuration < MaxDuration
  /\ recordingDuration' = recordingDuration + 1
  /\ ev' = Event("Settings.interval", "call", NoFailure)
  /\ UNCHANGED <<isRecording, recordedAudioUrl, mediaRecorder, audioChunks,
                 recordingInterval, gumCalls, recState, emitted, trackLive,
                 onstop, intervals, formVars, listVars, netVars, settingsMounted,
                 appVars, offPageVars, backend>>

\* mediaRecorder.ondataavailable: the chunks after one event carrying frag
OnDataAvailable(chunks, frag) ==
  IF Len(frag) > 0 THEN Append(chunks, frag) ELSE chunks

\* the chunks after the events carrying frags, in the order they are fired
RECURSIVE Deliver(_, _)
Deliver(chunks, frags) ==
  IF frags = <<>> THEN chunks
  ELSE Deliver(OnDataAvailable(chunks, Head(frags)), Tail(frags))

\* The task stop() queues on recorder s: the recorder, started without a
\* timeslice, fires the data it gathered as dataavailable events and then
\* fires stop.  mediaRecorder.onstop runs up to the await of arrayBuffer().
OnStop(s, frags) ==
  /\ recState[s] = "flushing"
  /\ recState' = [recState EXCEPT ![s] = "stopped"]
  /\ emitted' = [emitted EXCEPT ![s] = frags]
  /\ audioChunks' = Deliver(audioChunks, frags)
  /\ onstop' = [onstop EXCEPT ![s] = [pc |-> "reading",
                                      blob |-> Concat(audioChunks')]]
  /\ recordedAudioUrl' = s
  /\ ev' = Event("Settings.onstop", "call", NoFailure)
  /\ UNCHANGED <<isRecording, recordingDuration, mediaRecorder,
                 recordingInterval, gumCalls, trackLive, intervals,
                 formVars, listVars, netVars, settingsMounted, appVars, offPageVars, backend>>

\* mediaRecorder.onstop of recorder s after the await: encode, fill the name
\* in, stop the tracks of the stream of this session
OnStopRead(s) ==
  /\ onstop[s].pc = "reading"
  /\ onstop' = [onstop EXCEPT ![s].pc = "done"]
  /\ audioData' = Btoa(onstop[s].blob)
  /\ selectedFileName' = ""
  /\ sampleName' = IF Trim(sampleName) = <<>> THEN RecordedName ELSE sampleName
  /\ trackLive' = [trackLive EXCEPT ![s] = FALSE]
  /\ ev' = Event("Settings.onstop", "ok", NoFailure)
  /\ UNCHANGED <<isRecording, recordingDuration, recordedAudioUrl,
                 mediaRecorder, audioChunks, recordingInterval, gumCalls,
                 recState, emitted, intervals, uploading, uploadError,
                 uploadSuccess, audioReads, listVars, netVars, settingsMounted,
                 appVars, offPageVars, backend>>

\* mediaRecorder.onstop of recorder s, the promise of arrayBuffer() rejected:
\* the handler ends there, nothing catches
OnStopReadFailed(s) ==
  /\ onstop[s].pc = "reading"
  /\ onstop' = [onstop EXCEPT ![s].pc = "failed"]
  /\ ev' = Event("Settings.onstop", "fail", NoFailure)
  /\ UNCHANGED <<isRecording, recordingDuration, recordedAudioUrl,
                 mediaRecorder, audioChunks, recordingInterval, gumCalls,
                 recState, emitted, trackLive, intervals, formVars, listVars, netVars,
                 settingsMounted, appVars, offPageVars, backend>>

\* handleFileSelect(event) with a file chosen, up to reader.readAsArrayBuffer
HandleFileSelect(file) ==
  /\ settingsMounted = "mounted"
  /\ Len(audioReads) < MaxReads
  /\ selectedFileName' = file.name
  /\ audioReads' = Append(audioReads, file.bytes)
  /\ ev' = Event("Settings.handleFileSelect", "call", NoFailure)
  /\ UNCHANGED <<captureVars, audioData, sampleName, uploading, uploadError,
                 uploadSuccess, listVars, netVars, settingsMounted, appVars, offPageVars, backend>>

\* reader.onload of handleFileSelect
AudioReaderOnload(i) ==
  /\ i \in 1..Len(audioReads)
  /\ audioData' = Btoa(audioReads[i])
  /\ recordedAudioUrl' = 0
  /\ audioReads' = RemoveAt(audioReads, i)
  /\ ev' = Event("Settings.reader.onload", "ok", NoFailure)
  /\ UNCHANGED <<isRecording, recordingDuration, mediaRecorder, audioChunks,
                 recordingInterval, gumCalls, recState, emitted, trackLive,
                 onstop, intervals, selectedFileName, sampleName, uploading,
                 uploadError, uploadSuccess, listVars, netVars, settingsMounted,
                 appVars, offPageVars, backend>>

\* onUnmounted: clear the duration timer, revoke the preview URL
SettingsOnUnmounted ==
  /\ settingsMounted = "mounted"
  /\ settingsMounted' = "unmounted"
  /\ intervals' = IF recordingInterval # 0
                    THEN intervals \ {recordingInterval}
                    ELSE intervals
  /\ ev' = Event("Settings.onUnmounted", "call", NoFailure)
  /\ UNCHANGED <<isRecording, recordingDuration, recordedAudioUrl,
                 mediaRecorder, audioChunks, recordingInterval, gumCalls,
                 recState, emitted, trackLive, onstop, formVars, listVars, netVars,
                 appVars, offPageVars, backend>>

(***************************************************************************)
(* Settings.vue: the sample list, upload and delete                         *)
(***************************************************************************)
\* the HTTP calls of the voice-sample page that are in flight
InFlight == Len(uploadCalls) + Len(listCalls) + Len(deleteCalls)

\* loadSamples() up to the await of axios.get, on behalf of caller; arg is
\* what the caller was about: the name uploaded, the id deleted, 0 on mount
LoadSamplesStart(caller, arg) ==
  /\ listLoading' = TRUE
  /\ samplesError' = ""
  /\ listCalls' = Append(listCalls,
                         [caller |-> caller, arg |-> arg, served |-> FALSE,
                          result |-> <<>>])

\* onMounted(() => { loadSamples(); })
SettingsOnMounted ==
  /\ settingsMounted = "no"
  /\ ~appMounted
  /\ settingsMounted' = "mounted"
  /\ LoadSamplesStart("mount", 0)
  /\ ev' = Event("Settings.onMounted", "call", NoFailure)
  /\ UNCHANGED <<captureVars, formVars, samples, deleting, uploadCalls,
                 deleteCalls, successTimers, nextId, appVars, offPageVars, backend>>

\* the backend answers a GET /v1/voice-samples with what it stores then
ListServe(i) ==
  /\ i \in 1..Len(listCalls)
  /\ ~listCalls[i].served
  /\ listCalls' = [listCalls EXCEPT ![i].served = TRUE, ![i].result = backend]
  /\ ev' = Event("backend.list", "call", NoFailure)
  /\ UNCHANGED <<captureVars, formVars, listVars, settingsMounted, uploadCalls,
                 deleteCalls, successTimers, nextId, appVars, offPageVars, backend>>

\* what the caller of loadSamples() does once loadSamples() has returned:
\* uploadSample sets the timer of the success message and, in finally, clears
\* uploading; deleteSample, in finally, clears deleting
AfterLoadSamples(caller) ==
  /\ IF caller = "upload"
       THEN /\ successTimers < MaxSuccessTimers
            /\ successTimers' = successTimers + 1
            /\ uploading' = FALSE
       ELSE UNCHANGED <<successTimers, uploading>>
  /\ deleting' = IF caller = "delete" THEN 0 ELSE deleting

\* LoadSamplesResolved without the assignment to samples
LoadSamplesResolvedKeepsList(i) ==
  /\ i \in 1..Len(listCalls)
  /\ listCalls[i].served
  /\ listLoading' = FALSE
  /\ listCalls' = RemoveAt(listCalls, i)
  /\ AfterLoadSamples(listCalls[i].caller)
  /\ ev' = Event("Settings.loadSamples", "ok", NoFailure)
  /\ UNCHANGED <<captureVars, selectedFileName, audioData, sampleName,
                 uploadError, uploadSuccess, audioReads, samplesError,
                 samples, settingsMounted, uploadCalls, deleteCalls, nextId,
                 appVars, offPageVars, backend>>

\* loadSamples() after the await, the GET answered with a 2xx
LoadSamplesResolved(i) ==
  /\ i \in 1..Len(listCalls)
  /\ listCalls[i].served
  /\ samples' = listCalls[i].result
  /\ listLoading' = FALSE
  /\ listCalls' = RemoveAt(listCalls, i)
  /\ AfterLoadSamples(listCalls[i].caller)
  /\ ev' = Event("Settings.loadSamples", "ok", NoFailure)
  /\ UNCHANGED <<captureVars, selectedFileName, audioData, sampleName,
                 uploadError, uploadSuccess, audioReads, samplesError,
                 settingsMounted, uploadCalls, deleteCalls, nextId, appVars, offPageVars,
                 backend>>

\* loadSamples() after the await, the GET failed: catch and finally
LoadSamplesRejected(i, f) ==
  /\ i \in 1..Len(listCalls)
  /\ samplesError' = ErrorText(f, "Failed to load samples")
  /\ listLoading' = FALSE
  /\ listCalls' = RemoveAt(listCalls, i)
  /\ AfterLoadSamples(listCalls[i].caller)
  /\ ev' = Event("Settings.loadSamples", "fail", f)
  /\ UNCHANGED <<captureVars, selectedFileName, audioData, sampleName,
                 uploadError, uploadSuccess, audioReads, samples,
                 settingsMounted, uploadCalls, deleteCalls, nextId, appVars, offPageVars,
                 backend>>

\* <input v-model="sampleName">, shown while audioData is not empty
EditSampleName(n) ==
  /\ settingsMounted = "mounted"
  /\ audioData # <<>>
  /\ n # sampleName
  /\ sampleName' = n
  /\ ev' = Event("Settings.editSampleName", "call", NoFailure)
  /\ UNCHANGED <<captureVars, selectedFileName, audioData, uploading,
                 uploadError, uploadSuccess, audioReads, listVars, netVars,
                 settingsMounted, appVars, offPageVars, backend>>

\* uploadSample() up to the await of axios.post
UploadSample ==
  /\ IF audioData = <<>> \/ Trim(sampleName) = <<>>
       THEN /\ ev' = Event("Settings.uploadSample", "return", NoFailure)
            /\ UNCHANGED <<uploading, uploadError, uploadSuccess, uploadCalls>>
       ELSE /\ InFlight < MaxInFlight
            /\ uploading' = TRUE
            /\ uploadError' = ""
            /\ uploadSuccess' = ""
            /\ uploadCalls' = Append(uploadCalls,
                 [name |-> sampleName, audio_base64 |-> audioData,
                  served |-> FALSE])
            /\ ev' = Event("Settings.uploadSample", "call", NoFailure)
  /\ UNCHANGED <<captureVars, selectedFileName, audioData, sampleName,
                 audioReads, listVars, listCalls, deleteCalls, successTimers,
                 nextId, settingsMounted, appVars, offPageVars, backend>>

\* <button @click="uploadSample" :disabled="uploading || !sampleName.trim()">
UploadDisabled == uploading \/ Trim(sampleName) = <<>>

\* a click on the upload button, shown while audioData is not empty
ClickUpload ==
  /\ settingsMounted = "mounted"
  /\ audioData # <<>>
  /\ ~UploadDisabled
  /\ UploadSample

\* <input @keyup.enter="uploadSample">, shown while audioData is not empty
EnterUpload ==
  /\ settingsMounted = "mounted"
  /\ audioData # <<>>
  /\ UploadSample

\* the backend stores the sample of a POST /v1/voice-samples
UploadServe(i) ==
  /\ i \in 1..Len(uploadCalls)
  /\ ~uploadCalls[i].served
  /\ nextId <= MaxSamples
  /\ backend' = Append(backend, [id |-> nextId, name |-> uploadCalls[i].name])
  /\ nextId' = nextId + 1
  /\ uploadCalls' = [uploadCalls EXCEPT ![i].served = TRUE]
  /\ ev' = Event("backend.upload", "call", NoFailure)
  /\ UNCHANGED <<captureVars, formVars, listVars, settingsMounted, listCalls,
                 deleteCalls, successTimers, appVars, offPageVars>>

\* uploadSample() after the await of axios.post, answered with a 2xx, up to
\* the await inside loadSamples()
UploadResolved(i) ==
  /\ i \in 1..Len(uploadCalls)
  /\ uploadCalls[i].served
  /\ uploadCalls' = RemoveAt(uploadCalls, i)
  /\ uploadSuccess' = "Voice sample uploaded successfully!"
  /\ audioData' = <<>>
  /\ sampleName' = <<>>
  /\ selectedFileName' = ""
  /\ recordedAudioUrl' = 0
  /\ recordingDuration' = 0
  /\ LoadSamplesStart("upload", uploadCalls[i].name)
  /\ ev' = Event("Settings.uploadSample", "ok", NoFailure)
  /\ UNCHANGED <<isRecording, mediaRecorder, audioChunks, recordingInterval,
                 gumCalls, recState, emitted, trackLive, onstop, intervals,
                 uploading, uploadError, audioReads, samples, deleting,
                 settingsMounted, deleteCalls, successTimers, nextId, appVars, offPageVars,
                 backend>>

\* UploadRejected that resets the form as the success branch does
UploadRejectedClearsForm(i, f) ==
  /\ i \in 1..Len(uploadCalls)
  /\ uploadCalls' = RemoveAt(uploadCalls, i)
  /\ uploadError' = ErrorText(f, "Upload failed")
  /\ uploading' = FALSE
  /\ audioData' = <<>>
  /\ sampleName' = <<>>
  /\ selectedFileName' = ""
  /\ recordedAudioUrl' = 0
  /\ ev' = Event("Settings.uploadSample", "fail", f)
  /\ UNCHANGED <<isRecording, recordingDuration, mediaRecorder, audioChunks,
                 recordingInterval, gumCalls, recState, emitted, trackLive,
                 onstop, intervals, uploadSuccess, audioReads, listVars,
                 settingsMounted, listCalls, deleteCalls, successTimers,
                 nextId, appVars, offPageVars, backend>>

\* uploadSample() after the await of axios.post, failed: catch and finally
UploadRejected(i, f) ==
  /\ i \in 1..Len(uploadCalls)
  /\ uploadCalls' = RemoveAt(uploadCalls, i)
  /\ uploadError' = ErrorText(f, "Upload failed")
  /\ uploading' = FALSE
  /\ ev' = Event("Settings.uploadSample", "fail", f)
  /\ UNCHANGED <<captureVars, selectedFileName, audioData, sampleName,
                 uploadSuccess, audioReads, listVars, settingsMounted,
                 listCalls, deleteCalls, successTimers, nextId, appVars, offPageVars,
                 backend>>

\* setTimeout(() => { uploadSuccess.value = ''; }, 3000)
SuccessTimeout ==
  /\ successTimers > 0
  /\ successTimers' = successTimers - 1
  /\ uploadSuccess' = ""
  /\ ev' = Event("Settings.successTimeout", "call", NoFailure)
  /\ UNCHANGED <<captureVars, selectedFileName, audioData, sampleName,
                 uploading, uploadError, audioReads, listVars, settingsMounted,
                 uploadCalls, listCalls, deleteCalls, nextId, appVars, offPageVars, backend>>

\* the ids of the rows the list shows
ShownIds == {samples[k].id : k \in 1..Len(samples)}

\* <button @click="deleteSample(sample.id)" :disabled="deleting === sample.id">
DeleteDisabled(id) == deleting = id

\* DeleteSample without the test of the answer to confirm()
DeleteSampleUnconfirmed(id, confirmed) ==
  /\ settingsMounted = "mounted"
  /\ id \in ShownIds
  /\ ~DeleteDisabled(id)
  /\ InFlight < MaxInFlight
  /\ deleting' = id
  /\ deleteCalls' = Append(deleteCalls,
                           [id |-> id, confirmed |-> confirmed, served |-> FALSE])
  /\ ev' = Event("Settings.deleteSample", "call", NoFailure)
  /\ UNCHANGED <<captureVars, formVars, samples, listLoading, samplesError,
                 settingsMounted, uploadCalls, listCalls, successTimers,
                 nextId, appVars, offPageVars, backend>>

\* deleteSample(id) up to the await of axios.delete; confirmed is the answer
\* to confirm(), kept with the call it lets through
DeleteSample(id, confirmed) ==
  /\ settingsMounted = "mounted"
  /\ id \in ShownIds
  /\ ~DeleteDisabled(id)
  /\ IF ~confirmed
       THEN /\ ev' = Event("Settings.deleteSample", "return", NoFailure)
            /\ UNCHANGED <<deleting, deleteCalls>>
       ELSE /\ InFlight < MaxInFlight
            /\ deleting' = id
            /\ deleteCalls' = Append(deleteCalls,
                 [id |-> id, confirmed |-> confirmed, served |-> FALSE])
            /\ ev' = Event("Settings.deleteSample", "call", NoFailure)
  /\ UNCHANGED <<captureVars, formVars, samples, listLoading, samplesError,
                 settingsMounted, uploadCalls, listCalls, successTimers,
                 nextId, appVars, offPageVars, backend>>

\* the backend removes the sample of a DELETE /v1/voice-samples/{id}
DeleteServe(i) ==
  /\ i \in 1..Len(deleteCalls)
  /\ ~deleteCalls[i].served
  /\ \E k \in 1..Len(backend) : backend[k].id = deleteCalls[i].id
  /\ backend' = SelectSeq(backend, LAMBDA smp : smp.id # deleteCalls[i].id)
  /\ deleteCalls' = [deleteCalls EXCEPT ![i].served = TRUE]
  /\ ev' = Event("backend.delete", "call", NoFailure)
  /\ UNCHANGED <<captureVars, formVars, listVars, settingsMounted, uploadCalls,
                 listCalls, successTimers, nextId, appVars, offPageVars>>

\* DeleteResolved that also removes the deleted row from samples locally
DeleteResolvedPatchesList(i) ==
  /\ i \in 1..Len(deleteCalls)
  /\ deleteCalls[i].served
  /\ deleteCalls' = RemoveAt(deleteCalls, i)
  /\ samples' = SelectSeq(samples, LAMBDA smp : smp.id # deleteCalls[i].id)
  /\ LoadSamplesStart("delete", deleteCalls[i].id)
  /\ ev' = Event("Settings.deleteSample", "ok", NoFailure)
  /\ UNCHANGED <<captureVars, formVars, deleting, settingsMounted,
                 uploadCalls, successTimers, nextId, appVars, offPageVars, backend>>

\* deleteSample(id) after the await of axios.delete, answered with a 2xx, up
\* to the await inside loadSamples()
DeleteResolved(i) ==
  /\ i \in 1..Len(deleteCalls)
  /\ deleteCalls[i].served
  /\ deleteCalls' = RemoveAt(deleteCalls, i)
  /\ LoadSamplesStart("delete", deleteCalls[i].id)
  /\ ev' = Event("Settings.deleteSample", "ok", NoFailure)
  /\ UNCHANGED <<captureVars, formVars, samples, deleting, settingsMounted,
                 uploadCalls, successTimers, nextId, appVars, offPageVars, backend>>

\* deleteSample(id) after the await of axios.delete, failed: catch and finally
DeleteRejected(i, f) ==
  /\ i \in 1..Len(deleteCalls)
  /\ deleteCalls' = RemoveAt(deleteCalls, i)
  /\ samplesError' = ErrorText(f, "Failed to delete sample")
  /\ deleting' = 0
  /\ ev' = Event("Settings.deleteSample", "fail", f)
  /\ UNCHANGED <<captureVars, formVars, samples, listLoading, settingsMounted,
                 uploadCalls, listCalls, successTimers, nextId, appVars, offPageVars,
                 backend>>

(***************************************************************************)
(* The gateway (server.js): one request through the middleware chain.      *)
(***************************************************************************)
\* a request arrives at the Express application
GatewayReceive(r) ==
  /\ gwStage \in {"idle", "done"}
  /\ gwRequest' = r
  /\ gwStage' = "classify"
  /\ gwHandled' = <<>>
  /\ gwForwarded' = NoRequest
  /\ gwUpstream' = 0
  /\ gwResponse' = NoResponse
  /\ ev' = Event("gateway.receive", "call", NoFailure)
  /\ UNCHANGED <<appVars, settingsVars, encoderVars, backend>>

\* IsApi that matches the two paths exactly
IsApiExact(p) == p = PathHealth \/ p = PathV1

\* req.path === '/health' || req.path.startsWith('/v1')
IsApi(p) == p = PathHealth \/ StartsWith(p, PathV1)

\* Forward as a proxy mounted at /v1 sends it: the mount path stripped
ForwardStripsMount(r) ==
  [r EXCEPT !.host = ApiHost,
            !.path = IF StartsWith(r.path, PathV1) /\ Len(r.path) > Len(PathV1)
                       THEN SubSeq(r.path, Len(PathV1) + 1, Len(r.path))
                       ELSE r.path]

\* the request apiProxy sends to the target: changeOrigin sets the host, no
\* pathRewrite is configured and no body parser runs before it
Forward(r) == [r EXCEPT !.host = ApiHost]

\* the first middleware: API paths go to the proxy, the others to next()
GatewayClassify ==
  /\ gwStage = "classify"
  /\ IF IsApi(gwRequest.path)
       THEN /\ gwStage' = "proxy"
            /\ gwHandled' = Append(gwHandled, "proxy")
            /\ gwForwarded' = Forward(gwRequest)
       ELSE /\ gwStage' = "static"
            /\ UNCHANGED <<gwHandled, gwForwarded>>
  /\ ev' = Event("gateway.classify", "call", NoFailure)
  /\ UNCHANGED <<gwRequest, gwUpstream, gwResponse, appVars, settingsVars,
                 encoderVars, backend>>

\* the file express.static finds for a path (<<>> = none): the file of that
\* path, or index.html for the directory itself
StaticResolve(p) ==
  IF p \in DistFiles THEN p
  ELSE IF p = PathRoot /\ PathIndex \in DistFiles THEN PathIndex
  ELSE <<>>

\* express.static(distDir): serves GET and HEAD of a file, next() otherwise
GatewayStatic ==
  /\ gwStage = "static"
  /\ IF gwRequest.method \in {"GET", "HEAD"} /\ StaticResolve(gwRequest.path) # <<>>
       THEN /\ gwStage' = "done"
            /\ gwHandled' = Append(gwHandled, "static")
            /\ gwResponse' = [status |-> 200, doc |-> StaticResolve(gwRequest.path)]
       ELSE /\ gwStage' = "fallback"
            /\ UNCHANGED <<gwHandled, gwResponse>>
  /\ ev' = Event("gateway.static", "call", NoFailure)
  /\ UNCHANGED <<gwRequest, gwForwarded, gwUpstream, appVars, settingsVars,
                 encoderVars, backend>>

\* the last middleware: res.sendFile(index.html)
GatewayFallback ==
  /\ gwStage = "fallback"
  /\ gwStage' = "done"
  /\ gwHandled' = Append(gwHandled, "shell")
  /\ gwResponse' = [status |-> 200, doc |-> PathIndex]
  /\ ev' = Event("gateway.fallback", "call", NoFailure)
  /\ UNCHANGED <<gwRequest, gwForwarded, gwUpstream, appVars, settingsVars,
                 encoderVars, backend>>

\* the backend answers the forwarded request and the proxy pipes the answer
GatewayProxyResponse(status) ==
  /\ gwStage = "proxy"
  /\ gwStage' = "done"
  /\ gwUpstream' = status
  /\ gwResponse' = [status |-> status, doc |-> <<"backend">>]
  /\ ev' = Event("gateway.proxy", "ok", NoFailure)
  /\ UNCHANGED <<gwRequest, gwHandled, gwForwarded, appVars, settingsVars,
                 encoderVars, backend>>

\* the backend cannot be reached: the proxy answers with an error status
GatewayProxyError(status) ==
  /\ gwStage = "proxy"
  /\ gwStage' = "done"
  /\ gwResponse' = [status |-> status, doc |-> <<"proxy error">>]
  /\ ev' = Event("gateway.proxy", "fail", NoFailure)
  /\ UNCHANGED <<gwRequest, gwHandled, gwForwarded, gwUpstream, appVars,
                 settingsVars, encoderVars, backend>>

(***************************************************************************)
(* The payload encoder: bytes to text in the page, text to bytes in the    *)
(* backend.                                                                *)
(***************************************************************************)
\* the array buffer of a file or of a recording
EncoderInput(x) ==
  /\ encPc \in {"idle", "reencoded"}
  /\ encIn' = x
  /\ encText' = <<>>
  /\ encBack' = <<>>
  /\ encAgain' = <<>>
  /\ encPc' = "input"
  /\ ev' = Event("encoder.input", "call", NoFailure)
  /\ UNCHANGED <<appVars, settingsVars, gatewayVars, backend>>

\* btoa(new Uint8Array(arrayBuffer).reduce(...))
Encode ==
  /\ encPc = "input"
  /\ encText' = Btoa(encIn)
  /\ encPc' = "encoded"
  /\ ev' = Event("encoder.encode", "call", NoFailure)
  /\ UNCHANGED <<encIn, encBack, encAgain, appVars, settingsVars, gatewayVars,
                 backend>>

\* the backend decodes audio_base64
Decode ==
  /\ encPc = "encoded"
  /\ encBack' = Atob(encText)
  /\ encPc' = "decoded"
  /\ ev' = Event("encoder.decode", "call", NoFailure)
  /\ UNCHANGED <<encIn, encText, encAgain, appVars, settingsVars, gatewayVars,
                 backend>>

\* the decoded bytes encoded again
Reencode ==
  /\ encPc = "decoded"
  /\ encAgain' = Btoa(encBack)
  /\ encPc' = "reencoded"
  /\ ev' = Event("encoder.encode", "again", NoFailure)
  /\ UNCHANGED <<encIn, encText, encBack, appVars, settingsVars, gatewayVars,
                 backend>>

(***************************************************************************)
(* Specifications                                                           *)
(***************************************************************************)
SampleNames == Names \cup {<<>>, <<SP>>}

\* the voice-sample page: capture and file ingestion
NextCapture ==
  \/ SettingsOnMounted
  \/ ToggleRecording
  \/ StartRecordingGranted
  \/ \E f \in Failures : StartRecordingDenied(f)
  \/ \E id \in Sessions : IntervalTick(id)
  \/ \E s \in Sessions, frags \in SeqsUpTo(Fragments, MaxFrags) : OnStop(s, frags)
  \/ \E s \in Sessions : OnStopRead(s)
  \/ \E s \in Sessions : OnStopReadFailed(s)
  \/ \E file \in AudioFiles : HandleFileSelect(file)
  \/ \E i \in 1..MaxReads : AudioReaderOnload(i)
  \/ SettingsOnUnmounted

SpecCapture == Init /\ [][NextCapture]_vars

\* the voice-sample page: list, upload and delete
NextSamples ==
  \/ SettingsOnMounted
  \/ \E i \in 1..MaxInFlight : ListServe(i)
  \/ \E i \in 1..MaxInFlight : LoadSamplesResolved(i)
  \/ \E i \in 1..MaxInFlight, f \in Failures : LoadSamplesRejected(i, f)
  \/ \E file \in {f \in AudioFiles : f.bytes # <<>>} : HandleFileSelect(file)
  \/ \E i \in 1..MaxReads : AudioReaderOnload(i)
  \/ \E n \in SampleNames : EditSampleName(n)
  \/ ClickUpload
  \/ EnterUpload
  \/ \E i \in 1..MaxInFlight : UploadServe(i)
  \/ \E i \in 1..MaxInFlight : UploadResolved(i)
  \/ \E i \in 1..MaxInFlight, f \in Failures : UploadRejected(i, f)
  \/ SuccessTimeout
  \/ \E id \in SampleIds, c \in BOOLEAN : DeleteSample(id, c)
  \/ \E i \in 1..MaxInFlight : DeleteServe(i)
  \/ \E i \in 1..MaxInFlight : DeleteResolved(i)
  \/ \E i \in 1..MaxInFlight, f \in Failures : DeleteRejected(i, f)

SpecSamples == Init /\ [][NextSamples]_vars

\* the voice-sample page used one call at a time: the user starts no call
\* while another is in flight
NextSerial ==
  \/ SettingsOnMounted
  \/ \E i \in 1..MaxInFlight : ListServe(i)
  \/ \E i \in 1..MaxInFlight : LoadSamplesResolved(i)
  \/ \E i \in 1..MaxInFlight, f \in Failures : LoadSamplesRejected(i, f)
  \/ \E file \in {f \in AudioFiles : f.bytes # <<>>} : HandleFileSelect(file)
  \/ \E i \in 1..MaxReads : AudioReaderOnload(i)
  \/ \E n \in SampleNames : EditSampleName(n)
  \/ ClickUpload /\ InFlight' <= 1
  \/ EnterUpload /\ InFlight' <= 1
  \/ \E i \in 1..MaxInFlight : UploadServe(i)
  \/ \E i \in 1..MaxInFlight : UploadResolved(i)
  \/ \E i \in 1..MaxInFlight, f \in Failures : UploadRejected(i, f)
  \/ SuccessTimeout
  \/ \E id \in SampleIds, c \in BOOLEAN : DeleteSample(id, c) /\ InFlight' <= 1
  \/ \E i \in 1..MaxInFlight : DeleteServe(i)
  \/ \E i \in 1..MaxInFlight : DeleteResolved(i)
  \/ \E i \in 1..MaxInFlight, f \in Failures : DeleteRejected(i, f)

SpecSerial == Init /\ [][NextSerial]_vars

\* what the page is waiting for: calls, microphone requests, recorders that
\* run or whose stop handler has not finished, and file reads
Pending ==
  InFlight + gumCalls + Len(audioReads)
    + Cardinality({s \in Sessions : \/ recState[s] \in {"recording", "flushing"}
                                     \/ onstop[s].pc = "reading"})

\* the failure the whole-page specification draws: a response with a detail
PageFailures == {f \in Failures : f.detail # ""}

\* the whole voice-sample page, recorder included, the user starting a new
\* operation only when the page waits for nothing else
NextPage ==
  \/ SettingsOnMounted
  \/ ToggleRecording /\ Pending' <= 1 /\ gumCalls' + Cardinality(Created) <= 1
  \/ StartRecordingGranted
  \/ \E f \in PageFailures : StartRecordingDenied(f)
  \/ \E id \in Sessions : IntervalTick(id)
  \/ \E s \in Sessions, frags \in SeqsUpTo(Fragments, 1) : OnStop(s, frags)
  \/ \E s \in Sessions : OnStopRead(s)
  \/ \E s \in Sessions : OnStopReadFailed(s)
  \/ \E file \in AudioFiles : HandleFileSelect(file) /\ Pending' <= 1
  \/ \E i \in 1..MaxReads : AudioReaderOnload(i)
  \/ \E i \in 1..MaxInFlight : ListServe(i)
  \/ \E i \in 1..MaxInFlight : LoadSamplesResolved(i)
  \/ \E i \in 1..MaxInFlight, f \in PageFailures : LoadSamplesRejected(i, f)
  \/ \E n \in SampleNames : EditSampleName(n)
  \/ ClickUpload /\ Pending' <= 1
  \/ EnterUpload /\ Pending' <= 1
  \/ \E i \in 1..MaxInFlight : UploadServe(i)
  \/ \E i \in 1..MaxInFlight : UploadResolved(i)
  \/ \E i \in 1..MaxInFlight, f \in PageFailures : UploadRejected(i, f)
  \/ SuccessTimeout
  \/ \E id \in SampleIds, c \in BOOLEAN : DeleteSample(id, c) /\ Pending' <= 1
  \/ \E i \in 1..MaxInFlight : DeleteServe(i)
  \/ \E i \in 1..MaxInFlight : DeleteResolved(i)
  \/ \E i \in 1..MaxInFlight, f \in PageFailures : DeleteRejected(i, f)

SpecPage == Init /\ [][NextPage]_vars

\* the voice-sample page with every call answered with a 2xx: responses
\* arrive in any order, none fails
NextReliable ==
  \/ SettingsOnMounted
  \/ \E i \in 1..MaxInFlight : ListServe(i)
  \/ \E i \in 1..MaxInFlight : LoadSamplesResolved(i)
  \/ \E file \in {f \in AudioFiles : f.bytes # <<>>} : HandleFileSelect(file)
  \/ \E i \in 1..MaxReads : AudioReaderOnload(i)
  \/ \E n \in SampleNames : EditSampleName(n)
  \/ ClickUpload
  \/ EnterUpload
  \/ \E i \in 1..MaxInFlight : UploadServe(i)
  \/ \E i \in 1..MaxInFlight : UploadResolved(i)
  \/ SuccessTimeout
  \/ \E id \in SampleIds, c \in BOOLEAN : DeleteSample(id, c)
  \/ \E i \in 1..MaxInFlight : DeleteServe(i)
  \/ \E i \in 1..MaxInFlight : DeleteResolved(i)

SpecReliable == Init /\ [][NextReliable]_vars

\* the two ingestion paths of the voice-sample page: one recording, made
\* with one request for the microphone, file selections, and reads that all
\* succeed
NextIngest ==
  \/ SettingsOnMounted
  \/ ToggleRecording /\ gumCalls' + Cardinality(Created) <= 1
  \/ StartRecordingGranted
  \/ \E id \in Sessions : IntervalTick(id)
  \/ \E s \in Sessions, frags \in SeqsUpTo(Fragments, MaxFrags) : OnStop(s, frags)
  \/ \E s \in Sessions : OnStopRead(s)
  \/ \E file \in AudioFiles : HandleFileSelect(file)
  \/ \E i \in 1..MaxReads : AudioReaderOnload(i)

SpecIngest == Init /\ [][NextIngest]_vars

\* the gateway handling requests one after the other
NextGateway ==
  \/ \E r \in Requests : GatewayReceive(r)
  \/ GatewayClassify
  \/ GatewayStatic
  \/ GatewayFallback
  \/ \E status \in BackendStatuses : GatewayProxyResponse(status)
  \/ \E status \in {500, 504} : GatewayProxyError(status)

SpecGateway == Init /\ [][NextGateway]_vars

\* the payload encoder applied to one input after the other
NextEncoder ==
  \/ \E x \in EncoderInputs : EncoderInput(x)
  \/ Encode
  \/ Decode
  \/ Reencode

SpecEncoder == Init /\ [][NextEncoder]_vars

\* the client, loaded at either route
Next == NextApp \/ NextSamples

Spec == Init /\ [][Next]_vars

(***************************************************************************)
(* Properties                                                               *)
(***************************************************************************)
Recording == {s \in Sessions : recState[s] = "recording"}
LiveStreams == {s \in Sessions : trackLive[s]}

\* C1: the blob a recorder's onstop builds, and the audioData encoded from
\* it, are exactly the fragments that recorder fired, concatenated in the
\* order they were fired.
C1_CaptureIsFragmentsInOrder ==
  /\ \A s \in Sessions :
       onstop[s].pc # "idle" => onstop[s].blob = Concat(emitted[s])
  /\ (ev.op = "Settings.onstop" /\ ev.kind = "ok") =>
       \E s \in Sessions :
         onstop[s].pc = "done" /\ audioData = Btoa(Concat(emitted[s]))

\* C2: at most one recorder is recording and at most one microphone stream
\* is held, whatever the order of toggleRecording calls and permission
\* answers.
C2_AtMostOneCapture ==
  /\ Cardinality(Recording) <= 1
  /\ Cardinality(LiveStreams) <= 1

\* C3: once the onstop handler of a session has ended, however it ended,
\* the tracks of that session's stream are stopped.
C3_StopReleasesMicrophone ==
  \A s \in Sessions : onstop[s].pc \in {"done", "failed"} => ~trackLive[s]

\* C4: after the Settings component is torn down no acquired stream has a
\* live track.
C4_TeardownReleasesMicrophone ==
  settingsMounted = "unmounted" => LiveStreams = {}

\* C5: at most one POST /v1/chat is in flight, and loading is true exactly
\* while it is.
C5_OneSynthesisInFlight ==
  /\ Len(chatCalls) <= 1
  /\ loading <=> chatCalls # <<>>

\* C5 witness: a request is in flight and a click on the button was refused
\* although the text is not blank.
C5_Witness ==
  /\ ev.op = "App.synthesize" /\ ev.kind = "blocked"
  /\ loading /\ Len(chatCalls) = 1
  /\ Trim(text) # <<>>

C7_EmptyWhileInFlight ==
  chatCalls # <<>> => (audioSrc = <<>> /\ error = "")

\* C7 as amended: synthesize clears error and audioSrc in the step that
\* sends the request, and while a request is in flight audioSrc is empty
\* and the error text is empty or the small-file warning of a text file
\* selected since.
C7_ClearedAtStartWarningOnly ==
  /\ [](chatCalls # <<>> =>
          (audioSrc = <<>> /\ error \in {"", "Warning: File is only"}))
  /\ [][(ev'.op = "App.synthesize" /\ ev'.kind = "call")
          => (error' = "" /\ audioSrc' = <<>>
                /\ Len(chatCalls') = Len(chatCalls) + 1)]_vars

\* C7 witness: a request is in flight and the warning of a file selected
\* meanwhile is shown.
C7_Witness ==
  /\ chatCalls # <<>> /\ loading
  /\ error = "Warning: File is only"
  /\ audioSrc = <<>>

\* C8: when the POST is answered without wav_base64 the request ends with
\* the error text 'No audio returned', audioSrc empty and loading false.
C8_MissingAudioIsAnError ==
  (ev.op = "App.synthesize" /\ ev.kind = "noaudio")
    => (error = "No audio returned" /\ audioSrc = <<>> /\ ~loading)

\* C8 witness: a request has just ended for lack of audio.
C8_Witness ==
  /\ ev.op = "App.synthesize" /\ ev.kind = "noaudio"
  /\ error = "No audio returned" /\ ~loading

\* the error field a handler reports its failure in, and its generic text
ShownError(op) ==
  IF op = "App.synthesize" THEN error
  ELSE IF op = "Settings.uploadSample" THEN uploadError
  ELSE samplesError

GenericText(op) ==
  IF op = "App.synthesize" THEN "Request failed"
  ELSE IF op = "Settings.uploadSample" THEN "Upload failed"
  ELSE IF op = "Settings.loadSamples" THEN "Failed to load samples"
  ELSE "Failed to delete sample"

C10_EveryFailureVisible ==
  ev.kind = "fail" =>
    IF ev.op \in {"App.synthesize", "App.loadVoiceSamples"} THEN error # ""
    ELSE IF ev.op \in {"Settings.startRecording", "Settings.uploadSample",
                       "Settings.onstop"} THEN uploadError # ""
    ELSE samplesError # ""

\* C11: after an upload or a delete succeeds a list fetch is issued, and,
\* no other operation running, when that fetch succeeds the visible list
\* holds an entry with the uploaded name, respectively no entry with the
\* deleted id.
C11_ListRefetchedAfterWrite ==
  /\ [][(ev'.op \in {"Settings.uploadSample", "Settings.deleteSample"}
           /\ ev'.kind = "ok")
          => (Len(listCalls') = Len(listCalls) + 1 /\ samples' = samples)]_vars
  /\ [][(ev'.op = "Settings.loadSamples" /\ ev'.kind = "ok"
           /\ Len(listCalls) = 1 /\ listCalls' = <<>>)
          => LET c == listCalls[1]
             IN  /\ c.caller = "upload" =>
                      \E k \in 1..Len(samples') : samples'[k].name = c.arg
                 /\ c.caller = "delete" =>
                      \A k \in 1..Len(samples') : samples'[k].id # c.arg]_vars

\* C11 witness: the list fetch of an upload has just succeeded and the list
\* shows the sample the page had not shown before.
C11_Witness ==
  /\ ev.op = "Settings.loadSamples" /\ ev.kind = "ok"
  /\ uploadSuccess # "" /\ ~uploading
  /\ \E k \in 1..Len(samples) : samples[k].id = 2 /\ samples[k].name = <<"a">>

\* C12: once no list, upload or delete call is pending, the visible list of
\* the mounted page equals the backend's samples, whatever the order in which
\* the responses arrived.
C12_ListEqualsBackendWhenIdle ==
  (settingsMounted = "mounted" /\ InFlight = 0) => samples = backend

\* C13: the visible sample list changes only in the success branch of a list
\* fetch; uploadSample, deleteSample, recording, file selection and every
\* failure branch leave it as it was.
C13_ListChangedOnlyByFetch ==
  [][samples' # samples =>
       (ev'.op = "Settings.loadSamples" /\ ev'.kind = "ok")]_vars

\* C13 witness: a recording was made and uploaded, and the list fetch that
\* followed has just replaced the list by one of two samples.
C13_Witness ==
  /\ ev.op = "Settings.loadSamples" /\ ev.kind = "ok"
  /\ Len(samples) = 2
  /\ \E s \in Sessions : onstop[s].pc = "done"

\* C14: when uploadSample has returned on its precondition (blank name or no
\* audio data) without issuing a POST, an error is visible.
C14_PreconditionFailureSurfaced ==
  (ev.op = "Settings.uploadSample" /\ ev.kind = "return") => uploadError # ""

\* an invocation of deleteSample(id) has passed the confirmation and has not
\* reached the end of its finally block
DeleteInProgress(id) ==
  \/ \E i \in 1..Len(deleteCalls) : deleteCalls[i].id = id
  \/ \E i \in 1..Len(listCalls) :
       listCalls[i].caller = "delete" /\ listCalls[i].arg = id

\* C15: a row's delete control is disabled exactly while a delete of that
\* row's id is in progress, whatever deletes of other ids start or complete.
C15_DeleteDisablesOwnRowOnly ==
  \A id \in SampleIds : DeleteInProgress(id) <=> DeleteDisabled(id)

\* C16: every DELETE request issued was confirmed by the user in the
\* invocation that issued it, a DELETE is issued by deleteSample only, and an
\* invocation whose confirmation was refused changes no state.
C16_DeleteNeedsConfirmation ==
  /\ [](\A i \in 1..Len(deleteCalls) : deleteCalls[i].confirmed)
  /\ [][Len(deleteCalls') > Len(deleteCalls) =>
          (ev'.op = "Settings.deleteSample" /\ ev'.kind = "call")]_vars
  /\ [][(ev'.op = "Settings.deleteSample" /\ ev'.kind = "return") =>
          UNCHANGED <<appVars, settingsVars, backend>>]_vars

\* C16 witness: a delete was refused at the confirmation while the list shows
\* a sample, and no DELETE is in flight.
C16_Witness ==
  /\ ev.op = "Settings.deleteSample" /\ ev.kind = "return"
  /\ samples # <<>> /\ deleteCalls = <<>> /\ deleting = 0

\* C17: a request whose path is /health or starts with /v1 goes to the proxy
\* and never to the static or fallback handler; any other request goes to
\* those two and, when no file of the static directory matches its path, is
\* answered with the application shell; a handled request was taken by
\* exactly one handler.
C17_RouteClassification ==
  LET p == gwRequest.path
      api == p = <<"/", "h", "e", "a", "l", "t", "h">>
               \/ (Len(p) >= 3 /\ SubSeq(p, 1, 3) = <<"/", "v", "1">>)
  IN  /\ Len(gwHandled) <= 1
      /\ gwStage = "done" => Len(gwHandled) = 1
      /\ api => /\ gwStage \notin {"static", "fallback"}
                /\ gwHandled \in {<<>>, <<"proxy">>}
      /\ ~api => /\ gwStage # "proxy"
                 /\ gwHandled \in {<<>>, <<"static">>, <<"shell">>}
      /\ (gwStage = "done" /\ ~api /\ p \notin DistFiles) =>
            gwResponse = [status |-> 200, doc |-> PathIndex]

\* C17 witness: GET /foo/bar has been answered by the fallback handler.
C17_Witness ==
  /\ gwStage = "done"
  /\ gwRequest.path = PathFooBar
  /\ gwHandled = <<"shell">>
  /\ gwResponse.doc = PathIndex

\* C18: the request the proxy sends has the method, path, query string and
\* body of the inbound request, and the status returned to the client is the
\* status the backend answered.
C18_ProxyPreservesRequest ==
  /\ gwHandled = <<"proxy">> => gwForwarded # NoRequest
  /\ gwForwarded # NoRequest =>
       /\ gwForwarded.method = gwRequest.method
       /\ gwForwarded.path = gwRequest.path
       /\ gwForwarded.query = gwRequest.query
       /\ gwForwarded.body = gwRequest.body
  /\ (gwStage = "done" /\ gwUpstream # 0) => gwResponse.status = gwUpstream

\* C18 witness: POST /v1/chat?a=1 with a body was forwarded and the backend's
\* 404 was returned.
C18_Witness ==
  /\ gwStage = "done"
  /\ gwRequest.method = "POST" /\ gwRequest.path = PathChat
  /\ gwRequest.query = "?a=1" /\ gwRequest.body = "{}"
  /\ gwForwarded.path = PathChat /\ gwForwarded.host = ApiHost
  /\ gwUpstream = 404 /\ gwResponse.status = 404

\* C19: selecting a text file emits the warning exactly when its size is
\* below 200*1024 bytes and leaves the text alone; when a read completes the
\* text becomes the decoded contents of the file read.
C19_WarningIffBelowMinimum ==
  /\ [][ev'.op = "App.handleTextFileUpload" =>
          /\ uploadedFileSize' < MinFileSize <=>
               (error' = "Warning: File is only" /\ warnTimers' = warnTimers + 1)
          /\ uploadedFileSize' >= MinFileSize => UNCHANGED <<error, warnTimers>>
          /\ UNCHANGED text
          /\ \E f \in TextFiles :
               f.size = uploadedFileSize' /\ textReads' = Append(textReads, f.bytes)]_vars
  /\ [][ev'.op = "App.reader.onload" =>
          \E i \in 1..Len(textReads) :
             /\ textReads' = RemoveAt(textReads, i)
             /\ text' = DecodeText(textReads[i])]_vars

\* C19 witness: the file of exactly 204800 bytes was selected with no warning
\* pending, and its read has replaced the text without a warning.
C19_Witness ==
  /\ ev.op = "App.reader.onload"
  /\ uploadedFileName = "edge.txt" /\ uploadedFileSize = 204800
  /\ text = <<SP>>
  /\ error = "" /\ warnTimers = 0

\* C20: decoding the encoding of any byte sequence gives the sequence back,
\* encoding the decoded text gives the text back, and every input has an
\* encoding: a padded text of four sextets for every three bytes begun.
C20_EncoderRoundTrip ==
  /\ encPc \in {"encoded", "decoded", "reencoded"} =>
       /\ Len(encText) = 4 * ((Len(encIn) + 2) \div 3)
       /\ \A k \in 1..Len(encText) : encText[k] \in 0..Pad
  /\ encPc \in {"decoded", "reencoded"} => encBack = encIn
  /\ encPc = "reencoded" => encAgain = encText

\* C20 witness: a four-byte input holding 255 has gone through encoding,
\* decoding and encoding again.
C20_Witness ==
  /\ encPc = "reencoded"
  /\ Len(encIn) = 4 /\ encIn[3] = 255 /\ encIn[4] = 128
  /\ encBack = encIn /\ encAgain = encText

\* C21: the step in which getUserMedia is refused sets the microphone error
\* text and starts nothing: isRecording, the recorders, their streams and
\* the duration timers stay as they were, so an idle page stays idle.
C21_DenialReportsAndStaysIdle ==
  [][(ev'.op = "Settings.startRecording" /\ ev'.kind = "fail") =>
       /\ uploadError' = "Failed to access microphone: "
       /\ UNCHANGED <<isRecording, mediaRecorder, recState, trackLive,
                      intervals, recordingInterval, recordingDuration,
                      audioChunks>>
       /\ (~isRecording /\ intervals = {} /\ Recording = {}) =>
            (~isRecording' /\ intervals' = {}
               /\ \A s \in Sessions : recState'[s] # "recording")]_vars

\* C21 witness: access was just refused on an idle page: the error is shown,
\* nothing records and no timer runs.
C21_Witness ==
  /\ ev.op = "Settings.startRecording" /\ ev.kind = "fail"
  /\ uploadError = "Failed to access microphone: "
  /\ ~isRecording /\ Recording = {} /\ intervals = {} /\ mediaRecorder = 0

\* C22: when a new recording becomes active, the result of a finished
\* earlier session that was ready for upload is gone: the preview handle no
\* longer names it and audioData no longer holds its encoding.
C22_NewRecordingDiscardsPrevious ==
  [][(ev'.op = "Settings.startRecording" /\ ev'.kind = "ok") =>
       \A r \in Sessions :
         (onstop[r].pc = "done" /\ onstop[r].blob # <<>>
            /\ recordedAudioUrl = r /\ audioData = Btoa(onstop[r].blob)) =>
           (recordedAudioUrl' # r /\ audioData' # Btoa(onstop[r].blob))]_vars

\* C23: the timer of the small-file warning clears the warning only: an
\* error text that is not the warning is still shown after the timer fired.
C23_TimerClearsOnlyWarning ==
  [][(ev'.op = "App.warningTimeout" /\ error # "Warning: File is only") =>
       error' = error]_vars

\* the bytes of the audio file of a name
FileBytes(name) == (CHOOSE f \in AudioFiles : f.name = name).bytes

\* C24: once no file read and no recorder is pending and audio is loaded,
\* exactly one of selectedFileName and recordedAudioUrl is set, and
\* audioData is the encoding of the source it names.
C24_LastIngestionWins ==
  (/\ audioReads = <<>>
   /\ gumCalls = 0
   /\ \A s \in Sessions : /\ recState[s] \in {"unused", "stopped"}
                          /\ onstop[s].pc \in {"idle", "done"}
   /\ audioData # <<>>) =>
    /\ (selectedFileName # "") # (recordedAudioUrl # 0)
    /\ selectedFileName # "" => audioData = Btoa(FileBytes(selectedFileName))
    /\ recordedAudioUrl # 0 => audioData = Btoa(onstop[recordedAudioUrl].blob)

\* C25: when the stop task of a recorder runs, the chunks it leaves and the
\* blob its stop handler builds hold the fragments that recorder fired, and
\* no fragment of another recorder.
C25_CaptureHoldsOwnFragmentsOnly ==
  [][\A s \in Sessions :
       (recState[s] = "flushing" /\ recState'[s] = "stopped") =>
         /\ audioChunks' = SelectSeq(emitted'[s], LAMBDA frag : Len(frag) > 0)
         /\ onstop'[s].blob = Concat(emitted'[s])]_vars

\* C26: at most one POST /v1/voice-samples is in flight.
C26_OneUploadInFlight == Len(uploadCalls) <= 1

\* C27: while isRecording is false no duration timer is running.
C27_NoTimerWhenNotRecording == ~isRecording => intervals = {}

\* C28: a failed upload sets uploadError and leaves audioData, sampleName,
\* selectedFileName and recordedAudioUrl as they were; a successful upload
\* clears the four; uploading is false when uploadSample has finished, which
\* on success is when the list fetch it awaits has ended.
C28_FailureKeepsFormSuccessClears ==
  /\ [][(ev'.op = "Settings.uploadSample" /\ ev'.kind = "fail") =>
          /\ UNCHANGED <<audioData, sampleName, selectedFileName,
                         recordedAudioUrl, uploadSuccess>>
          /\ uploadError' # ""
          /\ ~uploading']_vars
  /\ [][(ev'.op = "Settings.uploadSample" /\ ev'.kind = "ok") =>
          /\ audioData' = <<>> /\ sampleName' = <<>>
          /\ selectedFileName' = "" /\ recordedAudioUrl' = 0
          /\ uploadError' = uploadError]_vars
  /\ [][(ev'.op = "Settings.loadSamples" /\ Len(listCalls') < Len(listCalls)
           /\ \E i \in 1..Len(listCalls) :
                listCalls[i].caller = "upload"
                  /\ listCalls' = RemoveAt(listCalls, i)
                  /\ \A k \in 1..Len(listCalls) :
                       listCalls[k].caller = "upload" => k = i) =>
          ~uploading']_vars

\* C28 witness: the upload of a recording has just failed: the recording,
\* its preview and the name are still in the form, the error is shown and
\* uploading is false.
C28_Witness ==
  /\ ev.op = "Settings.uploadSample" /\ ev.kind = "fail"
  /\ audioData # <<>> /\ recordedAudioUrl # 0 /\ sampleName # <<>>
  /\ uploadError # "" /\ ~uploading

====
